---- MODULE Spec2Model ----
(***************************************************************************)
(* Model of josim_tools/verify.py: the Verifier (construction, _simulate,  *)
(* verify, plot) and the VerifierResult record.                            *)
(*                                                                         *)
(* Numbers.  The code computes in IEEE-754 binary64.  The model keeps the  *)
(* structure of that arithmetic at a small width: a float is an integer    *)
(* count of quanta (1.0 is Unit quanta), a finite float has at most        *)
(* 7 significant bits (Mant), every operation rounds its exact result to   *)
(* the nearest representable value (ties to even), results beyond FMax     *)
(* become infinite, and NaN compares false with everything.                *)
(*                                                                         *)
(* Indices are those of the code (0-based); At(s, i) reads s[i].           *)
(***************************************************************************)
EXTENDS Integers, Sequences, FiniteSets

\* Largest length N of the Expectation Sequence (spec_file_.time()) when the
\* callers leave params at its default.
MaxSteps == 3
\* Largest length N when the callers pass parameter mappings.
MaxStepsParams == 2

-----------------------------------------------------------------------------
(* Floating point                                                          *)

\* 7 significant bits; the largest finite value has exponent 4
Mant == 2 ^ 7
FMax == (Mant - 1) * (2 ^ 4)
Inf == FMax + 1
NaN == FMax + 2
Unit == 2 ^ 3
\* 2 * np.pi, in quanta (6.25)
TwoPi == 50

IsNaN(x) == x = NaN
IsInf(x) == x = Inf \/ x = -Inf
IsFinite(x) == -FMax <= x /\ x <= FMax

RECURSIVE UlpFrom(_, _, _)
UlpFrom(m, den, u) ==
    IF m < Mant * u * den THEN u ELSE UlpFrom(m, den, 2 * u)

\* The float nearest to the exact quotient m / den (m >= 0, den > 0).
RoundMag(m, den) ==
    LET u == UlpFrom(m, den, 1)
        d == den * u
        q == m \div d
        r == m % d
        up == (2 * r > d) \/ (2 * r = d /\ q % 2 = 1)
        v == (IF up THEN q + 1 ELSE q) * u
    IN  IF v > FMax THEN Inf ELSE v

RoundRat(num, den) ==
    IF num >= 0 THEN RoundMag(num, den) ELSE -RoundMag(-num, den)

FNeg(a) == IF IsNaN(a) THEN NaN ELSE -a

FAdd(a, b) ==
    IF IsNaN(a) \/ IsNaN(b) THEN NaN
    ELSE IF IsInf(a) /\ IsInf(b) THEN (IF a = b THEN a ELSE NaN)
    ELSE IF IsInf(a) THEN a
    ELSE IF IsInf(b) THEN b
    ELSE RoundRat(a + b, 1)

FSub(a, b) == FAdd(a, FNeg(b))

\* a / b for a finite divisor b > 0
FDiv(a, b) ==
    IF IsNaN(a) THEN NaN
    ELSE IF IsInf(a) THEN a
    ELSE RoundRat(a * Unit, b)

FAbs(a) == IF IsNaN(a) THEN NaN ELSE IF a < 0 THEN -a ELSE a

FGt(a, b) == ~IsNaN(a) /\ ~IsNaN(b) /\ a > b

FLe(a, b) == ~IsNaN(a) /\ ~IsNaN(b) /\ a <= b

\* float(x) of a value that is a float already
ToFloat(x) == IF IsNaN(x) \/ IsInf(x) THEN x ELSE RoundRat(x, 1)

-----------------------------------------------------------------------------
(* Values the collaborators hand to the Verifier                           *)

At(s, i) == s[i + 1]

None == << >>
Some(x) == << x >>

\* spec_file_.names(): the tracked signals, in order
SpecNames == << "s0", "s1" >>
NumSignals == Len(SpecNames)
Signals == 1 .. NumSignals

\* expected phase flips: 0.0 and 1.0
ExpVals == { 0, Unit }
ExpVectors == [Signals -> ExpVals]

\* sampled phases: 0 and 2*pi
SampleVals == { 0, TwoPi }
SampleVectors == [Signals -> SampleVals]

\* configuration.threshold: 0.0 and 1.0
Thresholds == { 0, Unit }

\* spec_file_.time(): strictly increasing (0.5, 1.5, 2.5, ...)
TimeSeq(n) == [i \in 1 .. n |-> 4 + (i - 1) * Unit]

\* parameter mappings of the callers: None, or a dict in insertion order
ParamArgs ==
    { [none |-> TRUE, items |-> << >>],
      [none |-> FALSE, items |-> << >>],
      [none |-> FALSE, items |-> << <<"a", 1>> >>],
      [none |-> FALSE, items |-> << <<"a", 1>>, <<"b", 2>> >>],
      [none |-> FALSE, items |-> << <<"b", 2>>, <<"a", 1>> >>] }

\* callers that leave params at its default
DefaultArgs == { [none |-> TRUE, items |-> << >>] }

SimErrors == { "", "SimulationError" }

SampleOutcomes ==
    { [err |-> "", out |-> v] : v \in SampleVectors }
        \cup { [err |-> "SampleError", out |-> << >>] }

-----------------------------------------------------------------------------
VARIABLES
    spec_time,                \* spec_file_.time()
    spec_data,                \* spec_file_.data()
    threshold_,               \* Verifier.threshold_
    sim_traces,               \* simulator_: the configured trace order
    sim_parameters,           \* simulator_: the configured parameter names
    prev_parameters,          \* sim_parameters as the current call found it
    pc,                       \* where the current call stands
    op,                       \* the operation called last
    params,                   \* the params argument it was given
    index,                    \* verify: the loop variable
    calibration_samples,      \* verify: local
    calibration_phase_flips,  \* verify: local
    result,                   \* the value returned, if any
    error,                    \* the exception raised, if any
    log                       \* the calls the collaborators received in this call

vars ==
    << spec_time, spec_data, threshold_, sim_traces, sim_parameters,
       prev_parameters, pc, op, params, index, calibration_samples, calibration_phase_flips, result,
       error, log >>

-----------------------------------------------------------------------------
(* VerifierResult                                                          *)

VerifierResult(succeed, failure_time, failure_point) ==
    [succeed |-> succeed, failure_time |-> failure_time,
     failure_point |-> failure_point]

\* attribute defaults of zero and the empty list in place of None
VerifierResultZeroed(succeed) == VerifierResult(succeed, Some(0), Some(<< >>))

\* VerifierResult(True): the attribute defaults
VerifierResultDefault(succeed) == VerifierResult(succeed, None, None)

-----------------------------------------------------------------------------
(* Verifier._simulate                                                      *)

\* params: Optional[Dict[str, float]] = None
NoArg == [none |-> TRUE, items |-> << >>]

DefaultParams(arg) == IF arg.none THEN << >> ELSE arg.items

\* a _simulate that adds the keys to the names the simulator already has
ParametersAccumulated(p) ==
    sim_parameters
        \o SelectSeq([k \in 1 .. Len(p) |-> p[k][1]],
                     LAMBDA name : \A m \in 1 .. Len(sim_parameters) :
                                      sim_parameters[m] # name)

Parameters(p) == [k \in 1 .. Len(p) |-> p[k][1]]

\* a _simulate that lists the values in the opposite order to the names
ValuesReversed(p) == [k \in 1 .. Len(p) |-> p[Len(p) + 1 - k][2]]

Values(p) == [k \in 1 .. Len(p) |-> p[k][2]]

\* CircuitSimulator.change_parameters: the simulator keeps the list given
ChangeParameters(old, new) == new

SimulateEvent(names, values, err) ==
    [ev |-> "simulate", names |-> names, values |-> values, t |-> 0,
     err |-> err, out |-> << >>]

SampleEvent(t, oc) ==
    [ev |-> "sample", names |-> << >>, values |-> << >>, t |-> t,
     err |-> oc.err, out |-> oc.out]

-----------------------------------------------------------------------------
(* Verifier.verify: the comparison of one time step                        *)

PhaseFlipsSampled(samples, cal) ==
    [j \in Signals |-> FDiv(FSub(samples[j], cal[j]), TwoPi)]

\* an expected delta that leaves the calibration expectation out
PhaseFlipsAbsolute(flips, cal_flips) == [j \in Signals |-> flips[j]]

PhaseFlipsCompare(flips, cal_flips) ==
    [j \in Signals |-> FSub(flips[j], cal_flips[j])]

Difference(samples, cal, flips, cal_flips) ==
    LET sampled == PhaseFlipsSampled(samples, cal)
        compare == PhaseFlipsCompare(flips, cal_flips)
    IN  [j \in Signals |-> FAbs(FSub(sampled[j], compare[j]))]

\* a comparison with >= in place of >
ComparisonsAtLeast(difference, threshold) ==
    [j \in Signals |-> FLe(threshold, difference[j])]

Comparisons(difference, threshold) ==
    [j \in Signals |-> FGt(difference[j], threshold)]

Any(comparisons) == \E j \in Signals : comparisons[j]

\* list(np.where(comparisons)[0]): the true positions, 0-based, ascending
RECURSIVE WhereFrom(_, _)
WhereFrom(comparisons, j) ==
    IF j > NumSignals THEN << >>
    ELSE (IF comparisons[j] THEN << j - 1 >> ELSE << >>)
             \o WhereFrom(comparisons, j + 1)

\* the true positions counted from 1
WhereOneBased(comparisons) ==
    [k \in 1 .. Len(WhereFrom(comparisons, 1)) |-> WhereFrom(comparisons, 1)[k] + 1]

Where(comparisons) == WhereFrom(comparisons, 1)

\* an exception caught and turned into a failed verification
RaiseAsFailure(err) ==
    [pc |-> "returned", result |-> Some(VerifierResult(FALSE, None, None)),
     error |-> None]

\* What an exception of a collaborator does to the call: nothing catches it.
Raise(err) == [pc |-> "raised", result |-> None, error |-> Some(err)]

\* an iteration that never leaves the loop
IterationCollecting(i, samples, cal, cal_flips) ==
    [pc |-> "scan", result |-> None, error |-> None]

\* One iteration of the loop, given the samples it got.
Iteration(i, samples, cal, cal_flips) ==
    LET time_step == At(spec_time, i)
        difference == Difference(samples, cal, At(spec_data, i), cal_flips)
        comparisons == Comparisons(difference, threshold_)
    IN  IF Any(comparisons)
        THEN [pc |-> "returned",
              result |-> Some(VerifierResult(FALSE, Some(ToFloat(time_step)),
                                             Some(Where(comparisons)))),
              error |-> None]
        ELSE [pc |-> "scan", result |-> None, error |-> None]

-----------------------------------------------------------------------------
(* The state after Verifier.__init__                                       *)

InitWith(longest) ==
    /\ \E n \in 1 .. longest :
          /\ spec_time = TimeSeq(n)
          /\ spec_data \in [1 .. n -> ExpVectors]
    /\ threshold_ \in Thresholds
    /\ sim_traces = SpecNames
    /\ sim_parameters = << >>
    /\ prev_parameters = << >>
    /\ pc = "ready"
    /\ op = "init"
    /\ params = NoArg
    /\ index = 0
    /\ calibration_samples = << >>
    /\ calibration_phase_flips = << >>
    /\ result = None
    /\ error = None
    /\ log = << >>

Init == InitWith(MaxSteps)

InitParams == InitWith(MaxStepsParams)

Callable == { "ready", "returned", "raised" }

num_steps == Len(spec_time)

\* verify, lines 61-72: the default, _simulate, and the reads of the spec file
VerifyCall(arg, err) ==
    /\ pc \in Callable
    /\ LET p == DefaultParams(arg)
       IN  /\ params' = arg
           /\ prev_parameters' = sim_parameters
           /\ sim_parameters' = ChangeParameters(sim_parameters, Parameters(p))
           /\ log' = << SimulateEvent(Parameters(p), Values(p), err) >>
    /\ op' = "verify"
    /\ IF err = ""
       THEN /\ pc' = "calibrate"
            /\ result' = None
            /\ error' = None
       ELSE /\ pc' = Raise(err).pc
            /\ result' = Raise(err).result
            /\ error' = Raise(err).error
    /\ index' = 0
    /\ calibration_samples' = << >>
    /\ calibration_phase_flips' = << >>
    /\ UNCHANGED << spec_time, spec_data, threshold_, sim_traces >>

\* verify, lines 74-78
Calibrate(oc) ==
    /\ pc = "calibrate"
    /\ log' = Append(log, SampleEvent(At(spec_time, 0), oc))
    /\ IF oc.err = ""
       THEN /\ calibration_phase_flips' = At(spec_data, 0)
            /\ calibration_samples' = oc.out
            /\ index' = 1
            /\ pc' = "scan"
            /\ UNCHANGED << result, error >>
       ELSE /\ pc' = Raise(oc.err).pc
            /\ result' = Raise(oc.err).result
            /\ error' = Raise(oc.err).error
            /\ UNCHANGED << index, calibration_samples, calibration_phase_flips >>
    /\ UNCHANGED << spec_time, spec_data, threshold_, sim_traces,
                    sim_parameters, prev_parameters, op, params >>

\* verify, lines 80-95: one pass through the loop body
ScanStep(oc) ==
    /\ pc = "scan"
    /\ index < num_steps
    /\ log' = Append(log, SampleEvent(ToFloat(At(spec_time, index)), oc))
    /\ LET next == IF oc.err = ""
                   THEN Iteration(index, oc.out, calibration_samples,
                                  calibration_phase_flips)
                   ELSE Raise(oc.err)
       IN  /\ pc' = next.pc
           /\ result' = next.result
           /\ error' = next.error
           /\ IF next.pc = "scan"
              THEN /\ index' = index + 1
                   /\ UNCHANGED << calibration_samples, calibration_phase_flips >>
              ELSE /\ index' = 0
                   /\ calibration_samples' = << >>
                   /\ calibration_phase_flips' = << >>
    /\ UNCHANGED << spec_time, spec_data, threshold_, sim_traces,
                    sim_parameters, prev_parameters, op, params >>

\* a verify that fails when there was no time step to check
ExhaustedNeedsSteps ==
    IF num_steps > 1 THEN VerifierResultDefault(TRUE)
    ELSE VerifierResultDefault(FALSE)

\* verify, line 97: the result when no time step failed
Exhausted == VerifierResultDefault(TRUE)

\* verify, line 97: the loop is exhausted
ScanDone ==
    /\ pc = "scan"
    /\ index >= num_steps
    /\ pc' = "returned"
    /\ result' = Some(Exhausted)
    /\ index' = 0
    /\ calibration_samples' = << >>
    /\ calibration_phase_flips' = << >>
    /\ UNCHANGED << spec_time, spec_data, threshold_, sim_traces,
                    sim_parameters, prev_parameters, op, params, error, log >>

\* plot, lines 99-121
Plot(arg, err) ==
    /\ pc \in Callable
    /\ LET p == DefaultParams(arg)
       IN  /\ params' = arg
           /\ prev_parameters' = sim_parameters
           /\ sim_parameters' = ChangeParameters(sim_parameters, Parameters(p))
           /\ log' = << SimulateEvent(Parameters(p), Values(p), err) >>
    /\ op' = "plot"
    /\ IF err = ""
       THEN /\ pc' = "returned"
            /\ result' = None
            /\ error' = None
       ELSE /\ pc' = Raise(err).pc
            /\ result' = Raise(err).result
            /\ error' = Raise(err).error
    /\ index' = 0
    /\ calibration_samples' = << >>
    /\ calibration_phase_flips' = << >>
    /\ UNCHANGED << spec_time, spec_data, threshold_, sim_traces >>

NextWith(args) ==
    \/ \E arg \in args, err \in SimErrors : VerifyCall(arg, err)
    \/ \E oc \in SampleOutcomes : Calibrate(oc)
    \/ \E oc \in SampleOutcomes : ScanStep(oc)
    \/ ScanDone
    \/ \E arg \in args, err \in SimErrors : Plot(arg, err)

Next == NextWith(DefaultArgs)

NextParams == NextWith(ParamArgs)

\* calls with params left at its default, over Expectation Sequences up to MaxSteps
Spec == Init /\ [][Next]_vars

\* calls with parameter mappings, over Expectation Sequences up to MaxStepsParams
SpecParams == InitParams /\ [][NextParams]_vars

-----------------------------------------------------------------------------
(* What the claims speak of, read from the calls the collaborators got     *)

IsSample(e) == e.ev = "sample" /\ e.err = ""

\* the sample vector the trace returned for index i: the simulation run is
\* the first call of the log and the samples follow it
Sampled(i) == log[i + 2].out

\* the highest index of the Expectation Sequence sampled so far
LastIndex == Cardinality({ k \in DOMAIN log : IsSample(log[k]) }) - 1

\* the indices compared so far (index 0 is the calibration point)
Checked == 1 .. LastIndex

\* |(sample_i - calibration_sample) / (2 pi) - (expected_i - calibration_expectation)|
RefDifference(i, j) ==
    FAbs(FSub(FDiv(FSub(Sampled(i)[j], Sampled(0)[j]), TwoPi),
              FSub(At(spec_data, i)[j], At(spec_data, 0)[j])))

Exceeding(i) == { j \in Signals : FGt(RefDifference(i, j), threshold_) }

FirstViolation(i) ==
    /\ i \in Checked
    /\ Exceeding(i) # {}
    /\ \A k \in 1 .. (i - 1) : Exceeding(k) = {}

IsIncreasing(s) == \A a, b \in 1 .. Len(s) : a < b => s[a] < s[b]

Range(s) == { s[k] : k \in 1 .. Len(s) }

Success == [succeed |-> TRUE, failure_time |-> None, failure_point |-> None]

LastEvent == log[Len(log)]

KeysOf(arg) ==
    IF arg.none THEN << >> ELSE [k \in 1 .. Len(arg.items) |-> arg.items[k][1]]

ValueOf(arg, name) ==
    LET k == CHOOSE k \in 1 .. Len(arg.items) : arg.items[k][1] = name
    IN  arg.items[k][2]

-----------------------------------------------------------------------------
\* C1: in a verify call, if i is the smallest compared index at which some
\* signal's difference is strictly greater than the threshold, the call has
\* returned at that index (nothing later was sampled) with succeed = false,
\* failure_time = time()[i], and failure_point the signal indices exceeding
\* the threshold at i, exactly those, in increasing order.
C1_FirstViolationReported ==
    op = "verify" =>
        \A i \in Checked :
            FirstViolation(i) =>
                /\ pc = "returned"
                /\ i = LastIndex
                /\ result # None
                /\ result[1].succeed = FALSE
                /\ result[1].failure_time = Some(At(spec_time, i))
                /\ result[1].failure_point # None
                /\ IsIncreasing(result[1].failure_point[1])
                /\ Range(result[1].failure_point[1])
                       = { j - 1 : j \in Exceeding(i) }

\* C1 witness: index 1 passes, index 2 fails in the second signal only.
C1_Witness ==
    /\ op = "verify"
    /\ pc = "returned"
    /\ FirstViolation(2)
    /\ Exceeding(2) = { 2 }
    /\ result = Some(VerifierResult(FALSE, Some(At(spec_time, 2)), Some(<< 1 >>)))

\* C2: a verify call that returns with every difference at every index
\* 1..N-1 less than or equal to the threshold returns succeed = true; a
\* difference equal to the threshold does not fail the call.
C2_WithinThresholdSucceeds ==
    ( /\ op = "verify"
      /\ pc = "returned"
      /\ \A i \in Checked :
            \A j \in Signals : FLe(RefDifference(i, j), threshold_) )
        => /\ result = Some(Success)
           /\ LastIndex = num_steps - 1

\* C2 witness: a successful call over three time points in which some
\* difference equals a positive threshold.
C2_Witness ==
    /\ op = "verify"
    /\ pc = "returned"
    /\ num_steps = 3
    /\ threshold_ > 0
    /\ result = Some(Success)
    /\ \E i \in Checked : \E j \in Signals : RefDifference(i, j) = threshold_

\* C3: a result with succeed = true has failure_time and failure_point unset;
\* a result with succeed = false has failure_time = time()[i] for an index
\* i >= 1 (not the calibration time) and a non-empty failure_point of valid
\* signal indices.
C3_ResultShape ==
    result # None =>
        LET r == result[1]
        IN  /\ r.succeed => (r.failure_time = None /\ r.failure_point = None)
            /\ ~r.succeed =>
                  /\ \E i \in 1 .. (num_steps - 1) :
                        r.failure_time = Some(At(spec_time, i))
                  /\ r.failure_time # Some(At(spec_time, 0))
                  /\ r.failure_point # None
                  /\ r.failure_point[1] # << >>
                  /\ Range(r.failure_point[1]) \subseteq 0 .. (NumSignals - 1)

\* C3 witness: a failure in which every signal diverged.
C3_Witness ==
    /\ result # None
    /\ ~result[1].succeed
    /\ result[1].failure_point = Some(<< 0, 1 >>)
    /\ result[1].failure_time = Some(At(spec_time, 1))

\* C4: a call is raised exactly when the last call to a collaborator failed,
\* it then carries that error unchanged and no result; a threshold violation
\* ends the call with a returned result (succeed = false) and no error.
C4_ErrorsPropagate ==
    /\ pc = "raised" =>
          /\ result = None
          /\ log # << >>
          /\ LastEvent.err # ""
          /\ error = Some(LastEvent.err)
    /\ (log # << >> /\ LastEvent.err # "") => pc = "raised"
    /\ pc # "raised" => error = None
    /\ \A i \in Checked :
          Exceeding(i) # {} =>
              /\ pc = "returned"
              /\ error = None
              /\ result # None
              /\ result[1].succeed = FALSE

\* C4 witness: the sampling function raises at index 2, after index 1 passed.
C4_Witness ==
    /\ op = "verify"
    /\ pc = "raised"
    /\ Len(log) = 4
    /\ LastEvent.ev = "sample"
    /\ error = Some("SampleError")

\* C5: with an Expectation Sequence of length 1 a verify call samples only
\* the calibration point and every result it returns is succeed = true.
C5_LengthOneSucceeds ==
    (op = "verify" /\ num_steps = 1) =>
        /\ pc = "returned" => result = Some(Success)
        /\ result # None => result[1].succeed
        /\ Len(log) <= 2

\* C5 witness: length 1, threshold 0, a calibration sample away from the
\* calibration expectation, and the call returned.
C5_Witness ==
    /\ op = "verify"
    /\ num_steps = 1
    /\ pc = "returned"
    /\ threshold_ = 0
    /\ LastIndex = 0
    /\ Sampled(0)[1] = TwoPi
    /\ At(spec_data, 0)[1] = 0
    /\ result = Some(Success)

\* the result of a scan of the samples of this call alone
RECURSIVE Ascending(_, _)
Ascending(set, j) ==
    IF j > NumSignals THEN << >>
    ELSE (IF j \in set THEN << j - 1 >> ELSE << >>) \o Ascending(set, j + 1)

RECURSIVE FreshScan(_)
FreshScan(i) ==
    IF i > LastIndex THEN Success
    ELSE IF Exceeding(i) # {}
         THEN [succeed |-> FALSE, failure_time |-> Some(At(spec_time, i)),
               failure_point |-> Some(Ascending(Exceeding(i), 1))]
         ELSE FreshScan(i + 1)

\* C6: whatever calls came before, a verify call hands the simulator the
\* names and values of its own params and nothing of an earlier call, samples
\* at the times of the spec file, and returns what a scan of this call's own
\* samples gives.
C6_IndependentOfHistory ==
    op = "verify" =>
        /\ log # << >>
        /\ log[1].names = KeysOf(params)
        /\ Len(log[1].values) = Len(KeysOf(params))
        /\ sim_parameters = KeysOf(params)
        /\ \A k \in 2 .. Len(log) : log[k].t = At(spec_time, k - 2)
        /\ pc = "returned" => result = Some(FreshScan(1))

\* C6 witness: a verify call with no params, made on a Verifier whose
\* simulator an earlier call left configured with two names, has failed.
C6_Witness ==
    /\ op = "verify"
    /\ pc = "returned"
    /\ prev_parameters = << "b", "a" >>
    /\ params = NoArg
    /\ result # None
    /\ ~result[1].succeed

\* C7: a plot call that returns leaves the threshold, the expectation
\* source, the tracked-signal order and the simulator's parameter-name list
\* as they were.
C7_PlotLeavesEngineState ==
    [][ (pc \in Callable /\ op' = "plot" /\ pc' = "returned")
            => /\ threshold_' = threshold_
               /\ spec_time' = spec_time
               /\ spec_data' = spec_data
               /\ sim_traces' = sim_traces
               /\ sim_parameters' = sim_parameters ]_vars

\* offsets: 1.0, -1.0, 16.0 and 128.0
Offsets == { Unit, -Unit, 2 ^ 7, 2 ^ 10 }

Shift(v, k) == [j \in Signals |-> FAdd(v[j], k)]

Outcome(samples, cal, flips, cal_flips) ==
    Comparisons(Difference(samples, cal, flips, cal_flips), threshold_)

OutcomeAt(i) ==
    Outcome(Sampled(i), Sampled(0), At(spec_data, i), At(spec_data, 0))

ShiftedOutcomeAt(i, k) ==
    Outcome(Shift(Sampled(i), k), Shift(Sampled(0), k),
            Shift(At(spec_data, i), k), Shift(At(spec_data, 0), k))

\* the sum v[j] + k is a float: adding k rounds nothing
ExactShift(v, k) ==
    \A j \in Signals : IsFinite(v[j]) /\ FAdd(v[j], k) = v[j] + k

ExactShiftAt(i, k) ==
    /\ ExactShift(Sampled(i), k)
    /\ ExactShift(Sampled(0), k)
    /\ ExactShift(At(spec_data, i), k)
    /\ ExactShift(At(spec_data, 0), k)

\* an index has just been compared: its sample is the last call of the log
JustCompared == LastIndex >= 1 /\ LastIndex = Len(log) - 2

\* C8 as stated: at the index just compared, adding any one offset to the
\* calibration sample, the sample, the calibration expectation and the
\* expected vector leaves the set of signals over the threshold unchanged.
C8_OffsetInvariance ==
    JustCompared =>
        \A k \in Offsets : ShiftedOutcomeAt(LastIndex, k) = OutcomeAt(LastIndex)

\* C8 amended: the same, for every offset whose four additions are exact.
C8_ExactOffsetInvariance ==
    JustCompared =>
        \A k \in Offsets :
            ExactShiftAt(LastIndex, k)
                => ShiftedOutcomeAt(LastIndex, k) = OutcomeAt(LastIndex)

\* C8 witness: an index compared, with one signal over the threshold and one
\* not, at which the offset 1.0 is added exactly.
C8_Witness ==
    /\ op = "verify"
    /\ JustCompared
    /\ ExactShiftAt(LastIndex, Unit)
    /\ OutcomeAt(LastIndex)[1]
    /\ ~OutcomeAt(LastIndex)[2]

\* C9: in a verify call the first call to a collaborator is the one
\* simulation run, every later one is a sample, the k-th sample is taken at
\* time()[k] (k = 0, 1, 2, ...), and an index sampled with a threshold
\* violation is the last one sampled.
C9_SampleOrder ==
    (op = "verify" /\ log # << >>) =>
        /\ log[1].ev = "simulate"
        /\ Len(log) <= num_steps + 1
        /\ \A k \in 2 .. Len(log) :
              /\ log[k].ev = "sample"
              /\ log[k].t = At(spec_time, k - 2)
        /\ \A i \in Checked : Exceeding(i) # {} => i = LastIndex /\ Len(log) = i + 2

\* C9 witness: three time points, a violation at index 1, and the call has
\* returned without sampling index 2.
C9_Witness ==
    /\ op = "verify"
    /\ pc = "returned"
    /\ num_steps = 3
    /\ Len(log) = 3
    /\ Exceeding(1) # {}

\* C10: the names handed to the simulator are the keys of params in order
\* (none for None), the values are as many and the k-th value is the one
\* params maps the k-th name to; the simulator's list is those names, so a
\* name of an earlier call that params lacks is gone.
C10_ParametersFollowParams ==
    (op \in { "verify", "plot" }) =>
        /\ log # << >>
        /\ log[1].ev = "simulate"
        /\ log[1].names = KeysOf(params)
        /\ Len(log[1].values) = Len(log[1].names)
        /\ \A k \in 1 .. Len(log[1].names) :
              log[1].values[k] = ValueOf(params, log[1].names[k])
        /\ sim_parameters = KeysOf(params)
        /\ \A name \in Range(prev_parameters) :
              name \notin Range(KeysOf(params)) => name \notin Range(sim_parameters)

\* C10 witness: the call before named b and a, this one names a alone.
C10_Witness ==
    /\ op \in { "verify", "plot" }
    /\ prev_parameters = << "b", "a" >>
    /\ params = [none |-> FALSE, items |-> << << "a", 1 >> >>]
    /\ log[1].names = << "a" >>
    /\ log[1].values = << 1 >>
    /\ sim_parameters = << "a" >>

====
